---- MODULE Spec2Model ----
(***************************************************************************)
(* A model of pysph/sph/equation.py: the library of precomputed symbols,   *)
(* sort_precomputed, Equation and Group.                                   *)
(*                                                                         *)
(* A Python str is a TLA+ string (TLC evaluates Len, Head, Tail, SubSeq    *)
(* and \o on strings), a list is a sequence, a set is a set, a dict is a   *)
(* function; where the iteration order of a dict matters it is an explicit *)
(* sequence of keys.                                                       *)
(***************************************************************************)
EXTENDS Integers, Sequences, FiniteSets, TLC

VARIABLES
    pre_comp,   \* Group.pre_comp: the library, name -> code block
    heap,       \* the list objects the contexts refer to, id -> list
    groups,     \* the Group objects, id -> fields of the Group
    last,       \* the last call: operation, group, returned value, exception
    srt         \* the frame of a running sort_precomputed call

vars == <<pre_comp, heap, groups, last, srt>>

(***************************************************************************)
(* Bounds of the model.                                                    *)
(***************************************************************************)
\* The longest list of equations a group is given.
MaxEqs == 2
\* A dict of at most this many keys is iterated in every order; a larger one
\* in the ascending and in the descending order of its keys.
MaxFullPerm == 3
\* How many in-place modifications of context values are made.
MaxMods == 1
\* The number of names of the libraries sort_precomputed is run on by itself.
MaxSortNames == 3
\* The longest list of instances of one class get_equation_wrappers is run on.
MaxInstances == 11

(***************************************************************************)
(* Python values.                                                          *)
(***************************************************************************)
\* None, where the other values are integers (weights, line 229).
None == -1

Range(f) == {f[i] : i \in DOMAIN f}

Max(S) == CHOOSE m \in S : \A n \in S : n <= m

\* Every sequence that lists the elements of S once.
RECURSIVE Perms(_)
Perms(S) ==
    IF S = {} THEN {<<>>}
    ELSE UNION {{<<x>> \o p : p \in Perms(S \ {x})} : x \in S}

(***************************************************************************)
(* str: characters, comparison, formatting.                                *)
(***************************************************************************)
Digits == "0123456789"
UpperCase == "ABCDEFGHIJKLMNOPQRSTUVWXYZ"
LowerCase == "abcdefghijklmnopqrstuvwxyz"
\* The characters of identifiers in the order of their code points.
AsciiChars == Digits \o UpperCase \o "_" \o LowerCase

CharAt(s, i) == SubSeq(s, i, i)
IndexIn(c, s) == CHOOSE i \in 1..Len(s) : CharAt(s, i) = c
CharIn(c, s) == \E i \in 1..Len(s) : CharAt(s, i) = c
Ord(c) == IndexIn(c, AsciiChars)
IsUpper(c) == CharIn(c, UpperCase)
IsLower(c) == CharIn(c, LowerCase)
IsDigit(c) == CharIn(c, Digits)

\* a < b of two str: the first differing character decides, a proper prefix
\* is smaller.
RECURSIVE StrLess(_, _)
StrLess(a, b) ==
    IF b = "" THEN FALSE
    ELSE IF a = "" THEN TRUE
    ELSE IF Head(a) = Head(b) THEN StrLess(Tail(a), Tail(b))
    ELSE Ord(Head(a)) < Ord(Head(b))

\* sorted(list of str).
RECURSIVE Insert(_, _)
Insert(x, sortedSeq) ==
    IF sortedSeq = <<>> THEN <<x>>
    ELSE IF StrLess(Head(sortedSeq), x)
         THEN <<Head(sortedSeq)>> \o Insert(x, Tail(sortedSeq))
         ELSE <<x>> \o sortedSeq

RECURSIVE sorted(_)
sorted(list) ==
    IF list = <<>> THEN <<>> ELSE Insert(Head(list), sorted(Tail(list)))

\* str.lower().
RECURSIVE lower(_)
lower(s) ==
    IF s = "" THEN ""
    ELSE (IF IsUpper(Head(s)) THEN CharAt(LowerCase, IndexIn(Head(s), UpperCase))
          ELSE Head(s)) \o lower(Tail(s))

\* '%d' % n.
RECURSIVE FormatInt(_)
FormatInt(n) ==
    IF n < 10 THEN CharAt(Digits, n + 1)
    ELSE FormatInt(n \div 10) \o CharAt(Digits, (n % 10) + 1)

\* The length of the run of lower case letters s starts with.
RECURSIVE LowerRun(_)
LowerRun(s) ==
    IF s # "" /\ IsLower(Head(s)) THEN 1 + LowerRun(Tail(s)) ELSE 0

\* re.sub(r'(.)([A-Z][a-z]+)', r'\1_\2', s): the matches are found from the
\* left and do not overlap, [a-z]+ takes the whole run.
RECURSIVE SubCamelWord(_)
SubCamelWord(s) ==
    IF Len(s) < 3 THEN s
    ELSE IF IsUpper(CharAt(s, 2)) /\ IsLower(CharAt(s, 3))
         THEN LET k == LowerRun(SubSeq(s, 3, Len(s)))
              IN  CharAt(s, 1) \o "_" \o SubSeq(s, 2, 2 + k)
                    \o SubCamelWord(SubSeq(s, 3 + k, Len(s)))
         ELSE CharAt(s, 1) \o SubCamelWord(Tail(s))

\* re.sub('([a-z0-9])([A-Z])', r'\1_\2', s).
RECURSIVE SubCamelBoundary(_)
SubCamelBoundary(s) ==
    IF Len(s) < 2 THEN s
    ELSE IF (IsLower(CharAt(s, 1)) \/ IsDigit(CharAt(s, 1))) /\ IsUpper(CharAt(s, 2))
         THEN CharAt(s, 1) \o "_" \o CharAt(s, 2)
                \o SubCamelBoundary(SubSeq(s, 3, Len(s)))
         ELSE CharAt(s, 1) \o SubCamelBoundary(Tail(s))

camel_to_underscore(name) == lower(SubCamelBoundary(SubCamelWord(name)))

\* sep.join(list).
RECURSIVE Join(_, _)
Join(sep, list) ==
    IF list = <<>> THEN ""
    ELSE IF Len(list) = 1 THEN list[1]
    ELSE list[1] \o sep \o Join(sep, Tail(list))

StartsWith(s, prefix) ==
    Len(s) >= Len(prefix) /\ SubSeq(s, 1, Len(prefix)) = prefix

\* The smallest i with sub at s[i..], 0 when there is none (1 + s.find(sub)).
Find(s, sub) ==
    LET at == {i \in 1..(Len(s) - Len(sub) + 1) :
                  CharAt(s, i) = Head(sub) /\ SubSeq(s, i, i + Len(sub) - 1) = sub}
    IN  IF sub = "" THEN 1
        ELSE IF at = {} THEN 0
        ELSE CHOOSE i \in at : \A j \in at : i <= j

\* s.replace(old, new): every occurrence from the left, not overlapping.
RECURSIVE Replace(_, _, _)
Replace(s, old, new) ==
    LET i == Find(s, old)
    IN  IF i = 0 THEN s
        ELSE SubSeq(s, 1, i - 1) \o new
                \o Replace(SubSeq(s, i + Len(old), Len(s)), old, new)

\* The whitespace characters of the code texts.
IsSpace(c) == c = " " \/ c = "\n"

\* s.strip().
RECURSIVE LStrip(_)
LStrip(s) == IF s # "" /\ IsSpace(Head(s)) THEN LStrip(Tail(s)) ELSE s

RECURSIVE RStrip(_)
RStrip(s) ==
    IF s # "" /\ IsSpace(CharAt(s, Len(s)))
    THEN RStrip(SubSeq(s, 1, Len(s) - 1)) ELSE s

Strip(s) == RStrip(LStrip(s))

(***************************************************************************)
(* precomputed_symbols(): the library of code blocks.                      *)
(***************************************************************************)
\* A float of a context.
Float(v) == [type |-> "float", val |-> v]
\* A list of a context: a reference to the list object.
ListRef(id) == [type |-> "list", ref |-> id]

\* BasicCodeBlock(code, **kwargs): the code, the identifiers get_symbols finds
\* in it, and of the context the entry of the block's own name (the one a
\* Group reads).
BasicCodeBlock(code, symbols, context) ==
    [code |-> code, symbols |-> symbols, context |-> context]

\* The list objects precomputed_symbols() creates, one for each vector default.
LibraryLists ==
    [id \in {"XIJ", "VIJ", "DWIJ", "DWI", "DWJ"} |-> <<0, 0, 0>>]

precomputed_symbols ==
    [HIJ |-> BasicCodeBlock("HIJ = 0.5*(d_h[d_idx] + s_h[s_idx])",
                {"HIJ", "d_h", "d_idx", "s_h", "s_idx"}, Float(0)),
     RHOIJ |-> BasicCodeBlock("RHOIJ = 0.5*(d_rho[d_idx] + s_rho[s_idx])",
                {"RHOIJ", "d_rho", "d_idx", "s_rho", "s_idx"}, Float(0)),
     RHOIJ1 |-> BasicCodeBlock("RHOIJ1 = 1.0/RHOIJ",
                {"RHOIJ1", "RHOIJ"}, Float(0)),
     XIJ |-> BasicCodeBlock(
                "\nXIJ[0] = d_x[d_idx] - s_x[s_idx]"
                  \o "\nXIJ[1] = d_y[d_idx] - s_y[s_idx]"
                  \o "\nXIJ[2] = d_z[d_idx] - s_z[s_idx]\n",
                {"XIJ", "d_x", "d_y", "d_z", "s_x", "s_y", "s_z", "d_idx", "s_idx"},
                ListRef("XIJ")),
     VIJ |-> BasicCodeBlock(
                "\nVIJ[0] = d_u[d_idx] - s_u[s_idx]"
                  \o "\nVIJ[1] = d_v[d_idx] - s_v[s_idx]"
                  \o "\nVIJ[2] = d_w[d_idx] - s_w[s_idx]\n",
                {"VIJ", "d_u", "d_v", "d_w", "s_u", "s_v", "s_w", "d_idx", "s_idx"},
                ListRef("VIJ")),
     R2IJ |-> BasicCodeBlock(
                "\nR2IJ = XIJ[0]*XIJ[0] + XIJ[1]*XIJ[1] + XIJ[2]*XIJ[2]\n",
                {"R2IJ", "XIJ"}, Float(0)),
     RIJ |-> BasicCodeBlock("\nRIJ = sqrt(R2IJ)\n",
                {"RIJ", "sqrt", "R2IJ"}, Float(0)),
     WIJ |-> BasicCodeBlock("WIJ = KERNEL(XIJ, RIJ, HIJ)",
                {"WIJ", "KERNEL", "XIJ", "RIJ", "HIJ"}, Float(0)),
     WI |-> BasicCodeBlock("WI = KERNEL(XIJ, RIJ, d_h[d_idx])",
                {"WI", "KERNEL", "XIJ", "RIJ", "d_h", "d_idx"}, Float(0)),
     WJ |-> BasicCodeBlock("WJ = KERNEL(XIJ, RIJ, s_h[s_idx])",
                {"WJ", "KERNEL", "XIJ", "RIJ", "s_h", "s_idx"}, Float(0)),
     DWIJ |-> BasicCodeBlock("GRADIENT(XIJ, RIJ, HIJ, DWIJ)",
                {"GRADIENT", "XIJ", "RIJ", "HIJ", "DWIJ"}, ListRef("DWIJ")),
     DWI |-> BasicCodeBlock("GRADIENT(XIJ, RIJ, d_h[d_idx], DWI)",
                {"GRADIENT", "XIJ", "RIJ", "d_h", "d_idx", "DWI"}, ListRef("DWI")),
     DWJ |-> BasicCodeBlock("GRADIENT(XIJ, RIJ, s_h[s_idx], DWJ)",
                {"GRADIENT", "XIJ", "RIJ", "s_h", "s_idx", "DWJ"}, ListRef("DWJ"))]

(***************************************************************************)
(* sort_precomputed(precomputed).  The dict precomputed is its keys in the *)
(* order keys() lists them; its values are the blocks of Group.pre_comp.   *)
(* The frame of a call: pc, weights, depends, levels, pre_comp_names, the  *)
(* copy pre_comp_names[:] the for loop still has to visit, the result.     *)
(***************************************************************************)
\* Lines 229-243: the state on reaching the while loop.
SortStart(keys) ==
    [pc |-> "while",
     weights |-> [x \in Range(keys) |-> None],
     depends |-> [pre \in Range(keys) |->
                    {x \in pre_comp[pre].symbols : x \in DOMAIN pre_comp /\ x # pre}],
     levels |-> [l \in {} |-> <<>>],
     pre_comp_names |-> keys,
     scan |-> <<>>,
     result |-> <<>>]

\* levels[level].append(name) on a defaultdict(list).
LevelsAppend(levels, level, name) ==
    [l \in DOMAIN levels \cup {level} |->
        IF l = level
        THEN Append(IF l \in DOMAIN levels THEN levels[l] ELSE <<>>, name)
        ELSE levels[l]]

\* pre_comp_names.remove(name).
Remove(list, name) == SelectSeq(list, LAMBDA y : y # name)

\* LevelOf without the increment.
LevelOf_NoIncrement(wts) == Max(wts)

\* Level, as the weights of the dependencies give it, for a name it is
\* assigned to (line 254).
LevelOf(wts) == Max(wts) + 1

\* SortVisit without the test for None among the weights.
SortVisit_IgnoreNone(f, name) ==
    IF \E x \in f.depends[name] : x \notin DOMAIN f.weights
    THEN [f EXCEPT !.pc = "KeyError"]
    ELSE LET wts == {f.weights[x] : x \in f.depends[name]}
             level == IF wts = {} THEN 0 ELSE LevelOf(wts)
         IN  [f EXCEPT !.weights[name] = level,
                       !.levels = LevelsAppend(f.levels, level, name),
                       !.pre_comp_names = Remove(f.pre_comp_names, name)]

\* Lines 246-257: the body of the for loop, for one name.
SortVisit(f, name) ==
    IF \E x \in f.depends[name] : x \notin DOMAIN f.weights
    THEN [f EXCEPT !.pc = "KeyError"]
    ELSE LET wts == {f.weights[x] : x \in f.depends[name]}
             level == IF wts = {} THEN 0 ELSE LevelOf(wts)
         IN  IF wts # {} /\ None \in wts
             THEN f
             ELSE [f EXCEPT !.weights[name] = level,
                            !.levels = LevelsAppend(f.levels, level, name),
                            !.pre_comp_names = Remove(f.pre_comp_names, name)]

\* SortResult with each level in the order the names were appended.
RECURSIVE SortResult_Unsorted(_, _)
SortResult_Unsorted(levels, level) ==
    IF level >= Cardinality(DOMAIN levels) THEN <<>>
    ELSE (IF level \in DOMAIN levels THEN levels[level] ELSE <<>>)
            \o SortResult_Unsorted(levels, level + 1)

\* Lines 259-262: the keys of the OrderedDict that is returned.
RECURSIVE SortResult(_, _)
SortResult(levels, level) ==
    IF level >= Cardinality(DOMAIN levels) THEN <<>>
    ELSE sorted(IF level \in DOMAIN levels THEN levels[level] ELSE <<>>)
            \o SortResult(levels, level + 1)

\* One step of a call: the test of the while loop, one turn of the for loop,
\* or the construction of the result.
SortStep(f) ==
    CASE f.pc = "while" ->
            IF f.pre_comp_names = <<>> THEN [f EXCEPT !.pc = "result"]
            ELSE [f EXCEPT !.pc = "for", !.scan = f.pre_comp_names]
      [] f.pc = "for" ->
            IF f.scan = <<>> THEN [f EXCEPT !.pc = "while"]
            ELSE [SortVisit(f, Head(f.scan)) EXCEPT !.scan = Tail(f.scan)]
      [] f.pc = "result" ->
            [f EXCEPT !.pc = "return", !.result = SortResult(f.levels, 0)]

\* The call run to its end: a return or a KeyError.
RECURSIVE SortRun(_)
SortRun(f) ==
    IF f.pc \in {"return", "KeyError"} THEN f ELSE SortRun(SortStep(f))

sort_precomputed(keys) == SortRun(SortStart(keys))

(***************************************************************************)
(* Equation.  The classes are those of the caller: each is a subclass of   *)
(* Equation that defines some of initialize, loop and post_loop; a method  *)
(* is the list inspect.getargspec(meth).args of its parameters.            *)
(***************************************************************************)
EquationClasses ==
    [FooEquation |->
        [loop |-> <<"self", "d_idx", "s_idx", "d_rho", "s_rho", "RHOIJ">>],
     SummationDensity |->
        [initialize |-> <<"self", "d_idx", "d_rho">>,
         loop |-> <<"self", "d_idx", "d_rho", "s_idx", "s_m", "WIJ">>],
     DistanceTerm |->
        [loop |-> <<"self", "d_idx", "s_idx", "d_au", "RIJ">>,
         post_loop |-> <<"self", "d_idx", "d_au">>],
     BodyForce |->
        [initialize |-> <<"self", "d_idx", "d_au">>]]

\* Equation.__init__ (dest and sources are not read by Group): the instance
\* of class cls, with the name given or "" for name=None.
Equation(cls, name) ==
    [cls |-> cls,
     name |-> IF name = "" THEN cls ELSE name,
     var_name |-> ""]

\* The equations a caller makes: an instance of each class with its default
\* name, and one that is given the name of another class.
Equations ==
    {Equation(c, "") : c \in DOMAIN EquationClasses}
        \cup {Equation("SummationDensity", "FooEquation")}

\* The name given to one instance among many of a class.
InstanceNames == {"FooEquation1"}

\* hasattr(equation, kind).
HasMethod(equation, kind) == kind \in DOMAIN EquationClasses[equation.cls]
\* inspect.getargspec(getattr(equation, kind)).args.
MethodArgs(equation, kind) == EquationClasses[equation.cls][kind]

\* The lists of at most n new equations.
RECURSIVE EquationLists(_)
EquationLists(n) ==
    IF n = 0 THEN {<<>>}
    ELSE LET shorter == EquationLists(n - 1)
         IN  shorter \cup
             {Append(l, e) : l \in {x \in shorter : Len(x) = n - 1},
                             e \in Equations}

\* The lists of n <= MaxInstances instances of one class, at most one of them
\* constructed with a name.
InstanceLists ==
    {[i \in 1..n |-> Equation(c, IF i = k THEN nm ELSE "")] :
        n \in 0..MaxInstances, k \in 0..MaxInstances,
        c \in DOMAIN EquationClasses, nm \in InstanceNames}

(***************************************************************************)
(* Group.                                                                  *)
(***************************************************************************)
Groups == {"g1", "g2"}
Kinds == {"initialize", "loop", "post_loop"}

\* No exception, and the value of a call that returns nothing.
NoExc == "none"
PyNone == "None"
PyTrue == "True"
\* src_arrays = dest_arrays = None (line 299); a set s is <<s>>.
NoneSet == <<>>

\* Context().
EmptyContext == [x \in {} |-> Float(0)]

\* A Group id that names no object yet.
NoGroup ==
    [alive |-> FALSE, equations |-> <<>>, src_arrays |-> NoneSet,
     dest_arrays |-> NoneSet, context |-> EmptyContext, precomputed |-> <<>>]

\* Lines 298-300: the fields before update() is called.
NewGroup(equations) ==
    [alive |-> TRUE, equations |-> equations, src_arrays |-> NoneSet,
     dest_arrays |-> NoneSet, context |-> EmptyContext, precomputed |-> <<>>]

Call(op, g, ret, exc) == [op |-> op, g |-> g, ret |-> ret, exc |-> exc]

\* Lines 373-377: the names of the parameters of the loop methods.
AllArgs(equations) ==
    UNION {Range(MethodArgs(equations[i], "loop")) : i \in DOMAIN equations}
        \ {"self"}

\* ClosureLoop that stops after its first pass.
ClosureLoop_OnePass(precomputed, found_precomp) ==
    precomputed \cup UNION {{s \in pre_comp[sym].symbols : s \in DOMAIN pre_comp} :
                            sym \in found_precomp}

\* Lines 383-397: the loop that adds the library names the blocks found so
\* far refer to, until a pass finds none.
RECURSIVE ClosureLoop(_, _)
ClosureLoop(precomputed, found_precomp) ==
    LET all_new == UNION {{s \in pre_comp[sym].symbols :
                              s \in DOMAIN pre_comp /\ s \notin precomputed} :
                          sym \in found_precomp}
    IN  IF all_new = {} THEN precomputed
        ELSE ClosureLoop(precomputed \cup all_new, all_new)

\* Lines 379-397: the keys of the dict precomputed.
FoundPrecomputed(equations) ==
    LET precomputed == {s \in AllArgs(equations) : s \in DOMAIN pre_comp}
    IN  ClosureLoop(precomputed, precomputed)

RECURSIVE SeqOf(_)
SeqOf(S) ==
    IF S = {} THEN <<>>
    ELSE LET x == CHOOSE y \in S : TRUE IN <<x>> \o SeqOf(S \ {x})

Reverse(list) == [i \in 1..Len(list) |-> list[Len(list) + 1 - i]]

\* The orders in which keys() of a dict with the keys S may list them.
KeyOrders(S) ==
    IF Cardinality(S) <= MaxFullPerm THEN Perms(S)
    ELSE {sorted(SeqOf(S)), Reverse(sorted(SeqOf(S)))}

\* Lines 401-404: context[p] = cb.context[p] for the sorted names.
UpdateContext(context, names) ==
    [p \in DOMAIN context \cup Range(names) |->
        IF p \in Range(names) THEN pre_comp[p].context ELSE context[p]]

\* _setup_precomputed() on the fields grp, keys() of the dict listing its keys
\* as keys: the exception raised and the fields afterwards.
SetupPrecomputed(grp, keys) ==
    IF \E i \in DOMAIN grp.equations : ~HasMethod(grp.equations[i], "loop")
    THEN [exc |-> "AttributeError", grp |-> grp]
    ELSE LET f == sort_precomputed(keys)
         IN  IF f.pc = "KeyError" THEN [exc |-> "KeyError", grp |-> grp]
             ELSE [exc |-> NoExc,
                   grp |-> [grp EXCEPT
                              !.precomputed = f.result,
                              !.context = UpdateContext(grp.context, f.result)]]

\* The outcomes of _setup_precomputed(), one for each order of the dict.
SetupOutcomes(grp) ==
    IF \E i \in DOMAIN grp.equations : ~HasMethod(grp.equations[i], "loop")
    THEN {SetupPrecomputed(grp, <<>>)}
    ELSE {SetupPrecomputed(grp, keys) :
            keys \in KeyOrders(FoundPrecomputed(grp.equations))}

\* Group(equations): lines 297-301, run once for an object.  Nothing refers
\* to the object when update() raises.
Construct(g, equations) ==
    /\ ~groups[g].alive
    /\ \E o \in SetupOutcomes(NewGroup(equations)) :
          /\ groups' = IF o.exc = NoExc THEN [groups EXCEPT ![g] = o.grp]
                       ELSE groups
          /\ last' = Call("Group", g, PyNone, o.exc)
    /\ UNCHANGED <<pre_comp, heap, srt>>

\* update(): lines 409-410.
Update(g) ==
    /\ groups[g].alive
    /\ \E o \in SetupOutcomes(groups[g]) :
          /\ groups' = [groups EXCEPT ![g] = o.grp]
          /\ last' = Call("update", g, PyNone, o.exc)
    /\ UNCHANGED <<pre_comp, heap, srt>>

\* The caller appends a new equation to the list the group holds.
AppendEquation(g, equation) ==
    /\ groups[g].alive
    /\ Len(groups[g].equations) < MaxEqs
    /\ groups' = [groups EXCEPT ![g].equations = Append(@, equation)]
    /\ last' = Call("append", g, PyNone, NoExc)
    /\ UNCHANGED <<pre_comp, heap, srt>>

\* _has_code(kind): lines 330-334; the loop ends without a return when no
\* equation has the method.
HasCode(grp, kind) ==
    IF \E i \in DOMAIN grp.equations : HasMethod(grp.equations[i], kind)
    THEN PyTrue ELSE PyNone

\* args.remove('self'): the first occurrence.
RemoveFirst(list, x) ==
    IF \E i \in DOMAIN list : list[i] = x
    THEN LET k == CHOOSE i \in DOMAIN list :
                     list[i] = x /\ \A j \in 1..(i - 1) : list[j] # x
         IN  SubSeq(list, 1, k - 1) \o SubSeq(list, k + 1, Len(list))
    ELSE list

\* Lines 350-355: the call of the method kind of an equation.
Stub(equation, kind) ==
    "self." \o equation.var_name \o "." \o kind \o "("
        \o Join(", ", RemoveFirst(MethodArgs(equation, kind), "self")) \o ")"

\* PreLines without the test of kind.
PreLines_AnyKind(grp, kind) ==
    LET pre == [i \in DOMAIN grp.precomputed |->
                   Strip(pre_comp[grp.precomputed[i]].code)]
    IN  IF Len(pre) > 0 THEN Append(pre, "") ELSE pre

\* Lines 340-345: the list pre.
PreLines(grp, kind) ==
    LET pre == IF kind = "loop"
               THEN [i \in DOMAIN grp.precomputed |->
                        Strip(pre_comp[grp.precomputed[i]].code)]
               ELSE <<>>
    IN  IF Len(pre) > 0 THEN Append(pre, "") ELSE pre

\* Lines 346-358: the list code.
RECURSIVE StubLines(_, _)
StubLines(equations, kind) ==
    IF equations = <<>> THEN <<>>
    ELSE (IF HasMethod(Head(equations), kind)
          THEN <<Stub(Head(equations), kind)>> ELSE <<>>)
            \o StubLines(Tail(equations), kind)

CodeLines(grp, kind) ==
    LET code == StubLines(grp.equations, kind)
    IN  IF Len(code) > 0 THEN Append(code, "") ELSE code

\* _get_code(kind): lines 336-359.
GetCode(grp, kind) == Join("\n", PreLines(grp, kind) \o CodeLines(grp, kind))

\* _set_kernel(code, kernel): lines 361-367; kernel is whether one is given.
SetKernel(code, kernel) ==
    IF kernel
    THEN Replace(Replace(code, "GRADIENT", "self.kernel.gradient"),
                 "KERNEL", "self.kernel.kernel")
    ELSE code

\* has_initialize(), has_loop(), has_post_loop().
HasKind(g, kind) ==
    /\ groups[g].alive
    /\ last' = Call("has_" \o kind, g, HasCode(groups[g], kind), NoExc)
    /\ UNCHANGED <<pre_comp, heap, groups, srt>>

\* get_initialize_code(kernel), get_loop_code(kernel),
\* get_post_loop_code(kernel).
GetKindCode(g, kind, kernel) ==
    /\ groups[g].alive
    /\ last' = Call("get_" \o kind \o "_code", g,
                    SetKernel(GetCode(groups[g], kind), kernel), NoExc)
    /\ UNCHANGED <<pre_comp, heap, groups, srt>>

\* The names the equations of a caller have.
EquationNames == {e.name : e \in Equations} \cup InstanceNames

\* camel_to_underscore on each of these names.
UnderscoreNames == [name \in EquationNames |-> camel_to_underscore(name)]

\* '%s%d' % (camel_to_underscore(equation.name), n): line 498.
VarName(equation, n) == UnderscoreNames[equation.name] \o FormatInt(n)

\* classes[cls] += 1 on the defaultdict classes.
Increment(classes, cls) ==
    [c \in DOMAIN classes \cup {cls} |->
        IF c = cls THEN (IF c \in DOMAIN classes THEN classes[c] ELSE 0) + 1
        ELSE classes[c]]

\* Lines 495-500: the loop over the equations from position i on; classes is
\* the defaultdict of the counters, eqs the last equation of each class.
RECURSIVE WrapLoop(_, _, _, _)
WrapLoop(equations, i, classes, eqs) ==
    IF i > Len(equations)
    THEN [equations |-> equations, classes |-> classes, eqs |-> eqs]
    ELSE LET cls == equations[i].cls
             n == IF cls \in DOMAIN classes THEN classes[cls] ELSE 0
             named == [equations[i] EXCEPT !.var_name = VarName(equations[i], n)]
         IN  WrapLoop([equations EXCEPT ![i] = named], i + 1,
                      Increment(classes, cls),
                      [c \in DOMAIN eqs \cup {cls} |->
                          IF c = cls THEN named ELSE eqs[c]])

\* What CythonGenerator writes for the class of an equation.
CythonWrapper(equation) == "cdef class " \o equation.cls \o ":"

\* get_equation_wrappers(): lines 492-506.
GetEquationWrappers(g) ==
    /\ groups[g].alive
    /\ LET w == WrapLoop(groups[g].equations, 1,
                         [c \in {} |-> 0], [c \in {} |-> 0])
       IN  /\ groups' = [groups EXCEPT ![g].equations = w.equations]
           /\ \E order \in KeyOrders(DOMAIN w.classes) :
                 last' = Call("get_equation_wrappers", g,
                              Join("\n", [k \in DOMAIN order |->
                                            CythonWrapper(w.eqs[order[k]])]),
                              NoExc)
    /\ UNCHANGED <<pre_comp, heap, srt>>

\* get_equation_defs(): lines 508-514.
EquationDefs(grp) ==
    Join("\n", [i \in DOMAIN grp.equations |->
                  "cdef public " \o grp.equations[i].name \o " "
                      \o grp.equations[i].var_name])

GetEquationDefs(g) ==
    /\ groups[g].alive
    /\ last' = Call("get_equation_defs", g, EquationDefs(groups[g]), NoExc)
    /\ UNCHANGED <<pre_comp, heap, groups, srt>>

\* get_equation_init(): lines 516-523.
EquationInit(grp) ==
    Join("\n", [i \in DOMAIN grp.equations |->
                  "self." \o grp.equations[i].var_name \o " = "
                      \o grp.equations[i].name \o "(equations["
                      \o FormatInt(i - 1) \o "])"])

GetEquationInit(g) ==
    /\ groups[g].alive
    /\ last' = Call("get_equation_init", g, EquationInit(groups[g]), NoExc)
    /\ UNCHANGED <<pre_comp, heap, groups, srt>>

\* group.context[p][i] = 1: the caller changes, in place, an element of a
\* list a context holds.
SetItem(g, p, i) ==
    /\ groups[g].alive
    /\ p \in DOMAIN groups[g].context
    /\ groups[g].context[p].type = "list"
    /\ Cardinality(UNION {{<<id, j>> : j \in {k \in DOMAIN heap[id] :
                                                  heap[id][k] # 0}} :
                          id \in DOMAIN heap}) < MaxMods
    /\ i \in DOMAIN heap[groups[g].context[p].ref]
    /\ heap' = [heap EXCEPT ![groups[g].context[p].ref][i] = 1]
    /\ last' = Call("setitem", g, PyNone, NoExc)
    /\ UNCHANGED <<pre_comp, groups, srt>>

\* get_array_names(symbols): lines 60-68, the module's function.
get_array_names(symbols) ==
    [src |-> {x \in symbols : StartsWith(x, "s_") /\ x # "s_idx"},
     dest |-> {x \in symbols : StartsWith(x, "d_") /\ x # "d_idx"}]

\* Lines 418-426: the loops over the equations from position i on and over
\* the three methods; src and dest are the two sets so far.
RECURSIVE EquationArrays(_, _, _, _)
EquationArrays(equations, i, src, dest) ==
    IF i > Len(equations) THEN [src |-> src, dest |-> dest]
    ELSE LET meths == {k \in Kinds : HasMethod(equations[i], k)}
             found == {get_array_names(Range(MethodArgs(equations[i], k))) :
                          k \in meths}
         IN  EquationArrays(equations, i + 1,
                            src \cup UNION {f.src : f \in found},
                            dest \cup UNION {f.dest : f \in found})

\* ComputeArrayNames without the loop over the precomputed blocks.
ComputeArrayNames_NoPrecomputed(grp) ==
    EquationArrays(grp.equations, 1, {}, {})

\* Lines 416-430: the two sets get_array_names computes; cb.src_arrays and
\* cb.dest_arrays are get_array_names(cb.symbols) (line 138).
ComputeArrayNames(grp) ==
    LET eq == EquationArrays(grp.equations, 1, {}, {})
        cbs == {get_array_names(pre_comp[p].symbols) : p \in Range(grp.precomputed)}
    IN  [src |-> eq.src \cup UNION {cb.src : cb \in cbs},
         dest |-> eq.dest \cup UNION {cb.dest : cb \in cbs}]

\* The name of a call of get_array_names in last.
ArrayNamesOp(recompute) ==
    IF recompute THEN "get_array_names(recompute=True)" ELSE "get_array_names"

\* get_array_names(recompute): lines 412-435.
GetArrayNames(g, recompute) ==
    /\ groups[g].alive
    /\ IF ~recompute /\ groups[g].src_arrays # NoneSet
       THEN /\ last' = Call(ArrayNamesOp(recompute), g,
                           <<groups[g].src_arrays[1], groups[g].dest_arrays[1]>>,
                           NoExc)
            /\ UNCHANGED groups
       ELSE LET names == ComputeArrayNames(groups[g])
            IN  /\ groups' = [groups EXCEPT ![g].src_arrays = <<names.src>>,
                                            ![g].dest_arrays = <<names.dest>>]
                /\ last' = Call(ArrayNamesOp(recompute), g,
                                <<names.src, names.dest>>, NoExc)
    /\ UNCHANGED <<pre_comp, heap, srt>>

\* The caller removes the last equation of the list the group holds.
PopEquation(g) ==
    /\ groups[g].alive
    /\ groups[g].equations # <<>>
    /\ groups' = [groups EXCEPT
                    ![g].equations = SubSeq(@, 1, Len(@) - 1)]
    /\ last' = Call("pop", g, PyNone, NoExc)
    /\ UNCHANGED <<pre_comp, heap, srt>>

(***************************************************************************)
(* The specifications.                                                     *)
(***************************************************************************)
\* A frame of sort_precomputed when no call of it is observed.
NoFrame == [pc |-> "idle"]

Init ==
    /\ pre_comp = precomputed_symbols
    /\ heap = LibraryLists
    /\ groups = [g \in Groups |-> NoGroup]
    /\ last = Call("import", "", PyNone, NoExc)
    /\ srt = NoFrame

\* One Group and every operation on it.
Next ==
    \E g \in {"g1"} :
        \/ \E equations \in EquationLists(MaxEqs) : Construct(g, equations)
        \/ Update(g)
        \/ \E equation \in Equations : AppendEquation(g, equation)
        \/ \E kind \in Kinds : HasKind(g, kind)
        \/ \E kind \in Kinds, kernel \in BOOLEAN : GetKindCode(g, kind, kernel)
        \/ GetEquationWrappers(g)
        \/ GetEquationDefs(g)
        \/ GetEquationInit(g)

Spec == Init /\ [][Next]_vars

\* Two Groups over the one library, and a caller that changes the lists their
\* contexts hold.
SharedNext ==
    \E g \in Groups :
        \/ \E equations \in EquationLists(MaxEqs - 1) : Construct(g, equations)
        \/ Update(g)
        \/ \E p \in DOMAIN pre_comp, i \in 1..3 : SetItem(g, p, i)

SharedSpec == Init /\ [][SharedNext]_vars

\* get_equation_wrappers on a Group of many instances of one class.
WrapNext ==
    \E g \in {"g1"} :
        \/ \E equations \in InstanceLists : Construct(g, equations)
        \/ GetEquationWrappers(g)

WrapSpec == Init /\ [][WrapNext]_vars

\* sort_precomputed by itself, a step at a time, on every library of the
\* first MaxSortNames of these names and every set of its names that holds
\* the library names its blocks refer to.
SortNames == <<"XIJ", "R2IJ", "RIJ", "HIJ", "WIJ">>

SortLibraries ==
    LET names == {SortNames[i] : i \in 1..MaxSortNames}
    IN  {[x \in names |-> BasicCodeBlock("", {x, "d_idx"} \cup refs[x], Float(0))] :
            refs \in [names -> SUBSET names]}

SortInit ==
    /\ pre_comp \in SortLibraries
    /\ heap = LibraryLists
    /\ groups = [g \in Groups |-> NoGroup]
    /\ last = Call("import", "", PyNone, NoExc)
    /\ \E S \in SUBSET DOMAIN pre_comp :
          /\ \A x \in S : \A d \in pre_comp[x].symbols :
                d \in DOMAIN pre_comp => d \in S
          /\ \E keys \in Perms(S) : srt = SortStart(keys)

SortNext ==
    /\ srt.pc \in {"while", "for", "result"}
    /\ srt' = SortStep(srt)
    /\ UNCHANGED <<pre_comp, heap, groups, last>>

SortSpec == SortInit /\ [][SortNext]_vars

\* The interpreter runs the call on: a step that can be taken is taken.
FairSortSpec == SortSpec /\ WF_vars(SortNext)

\* One Group whose list of equations the caller changes, update() and
\* get_array_names.
ArrayNext ==
    \E g \in {"g1"} :
        \/ \E equations \in EquationLists(MaxEqs) : Construct(g, equations)
        \/ Update(g)
        \/ \E equation \in Equations : AppendEquation(g, equation)
        \/ PopEquation(g)
        \/ \E recompute \in BOOLEAN : GetArrayNames(g, recompute)

ArraySpec == Init /\ [][ArrayNext]_vars

(***************************************************************************)
(* Properties.                                                             *)
(***************************************************************************)
\* The library names other than x that the code block of x refers to.
Deps(x) == {d \in pre_comp[x].symbols : d \in DOMAIN pre_comp /\ d # x}

\* The position of x in a list without repetitions, 0 when x is not in it.
Position(list, x) ==
    IF \E i \in DOMAIN list : list[i] = x
    THEN CHOOSE i \in DOMAIN list : list[i] = x ELSE 0

Resolved(g) == groups[g].precomputed

\* The last call is a Group(...) or an update() that returned.
Resolving == last.op \in {"Group", "update"} /\ last.exc = NoExc

\* C1. Topological soundness: in the resolved order of a group every name
\* comes strictly after each library name, other than itself, that its code
\* block refers to and that is resolved too.
C1_TopologicalSoundness ==
    \A g \in Groups :
        groups[g].alive =>
            \A i \in DOMAIN Resolved(g) :
                \A d \in Deps(Resolved(g)[i]) \cap Range(Resolved(g)) :
                    Position(Resolved(g), d) < i

\* A group resolved to the chain of WIJ: three levels of dependencies.
C1_Witness ==
    /\ Resolving
    /\ groups[last.g].alive
    /\ Resolved(last.g) = <<"HIJ", "XIJ", "R2IJ", "RIJ", "WIJ">>

\* C2. Closure completeness: every library name the code block of a resolved
\* name refers to is resolved too, also when no loop method names it; so the
\* sorter never looks up the weight of a name it was not given.
C2_ClosureCompleteness ==
    /\ \A g \in Groups :
          groups[g].alive =>
              \A x \in Range(Resolved(g)) : Deps(x) \subseteq Range(Resolved(g))
    /\ last.exc # "KeyError"

\* A group whose only library parameter is RIJ, and that resolved R2IJ and,
\* two steps away, XIJ.
C2_Witness ==
    /\ Resolving
    /\ groups[last.g].alive
    /\ {s \in AllArgs(groups[last.g].equations) : s \in DOMAIN pre_comp} = {"RIJ"}
    /\ {"R2IJ", "XIJ"} \subseteq Range(Resolved(last.g))

\* weight(x) in the set S: 0 without a dependency in S, else one more than the
\* largest weight of its dependencies in S.
RECURSIVE Weight(_, _)
Weight(x, S) ==
    IF Deps(x) \cap S = {} THEN 0
    ELSE 1 + Max({Weight(d, S) : d \in Deps(x) \cap S})

\* list is the names of S by ascending weight and, at one weight, in ascending
\* order of the names.
IsReferenceOrder(list, S) ==
    /\ Range(list) = S
    /\ \A i, j \in DOMAIN list :
          i < j =>
              \/ Weight(list[i], S) < Weight(list[j], S)
              \/ /\ Weight(list[i], S) = Weight(list[j], S)
                 /\ StrLess(list[i], list[j])

\* C3. Deterministic order: the resolved order is the reference order of its
\* names, whatever the order in which the dicts were iterated.
C3_DeterministicOrder ==
    \A g \in Groups :
        groups[g].alive => IsReferenceOrder(Resolved(g), Range(Resolved(g)))

\* RIJ alone resolves to [XIJ, R2IJ, RIJ].
C3_Witness ==
    /\ Resolving
    /\ groups[last.g].alive
    /\ {s \in AllArgs(groups[last.g].equations) : s \in DOMAIN pre_comp} = {"RIJ"}
    /\ Resolved(last.g) = <<"XIJ", "R2IJ", "RIJ">>

\* The fragment of a library name as a getter emits it.
Fragment(p, kernel) == SetKernel(Strip(pre_comp[p].code), kernel)

\* The stubs of kind of the equations of a group.
Stubs(g, kind) ==
    {Stub(groups[g].equations[i], kind) :
        i \in {k \in DOMAIN groups[g].equations :
                  HasMethod(groups[g].equations[k], kind)}}

\* C4. Phase scoping: the code of get_initialize_code and get_post_loop_code
\* holds no fragment of the library; the code of get_loop_code starts with the
\* fragments of the resolved names, in the resolved order, and every stub
\* comes after them.
C4_PhaseScoping ==
    /\ last.op \in {"get_initialize_code", "get_post_loop_code"} =>
          \A p \in DOMAIN pre_comp, kernel \in BOOLEAN :
              Find(last.ret, Fragment(p, kernel)) = 0
    /\ last.op = "get_loop_code" =>
          \E kernel \in BOOLEAN :
              LET pre == Join("\n", [i \in DOMAIN Resolved(last.g) |->
                                        Fragment(Resolved(last.g)[i], kernel)])
              IN  /\ StartsWith(last.ret, pre)
                  /\ \A stub \in Stubs(last.g, "loop") :
                        Find(last.ret, stub) > Len(pre)

\* get_loop_code of a group of two equations that resolved five names.
C4_Witness ==
    /\ last.op = "get_loop_code"
    /\ Len(Resolved(last.g)) = 5
    /\ Cardinality(Stubs(last.g, "loop")) = 2

\* The values a context of a group holds, the lists as they are now.
ContextValues(g) ==
    [p \in DOMAIN groups[g].context |->
        IF groups[g].context[p].type = "list"
        THEN heap[groups[g].context[p].ref]
        ELSE groups[g].context[p].val]

\* The default values of the library's blocks, the lists as they are now.
LibraryDefaults ==
    [p \in DOMAIN pre_comp |->
        IF pre_comp[p].context.type = "list"
        THEN heap[pre_comp[p].context.ref]
        ELSE pre_comp[p].context.val]

\* C5. No shared mutable defaults: no step changes a default value of the
\* library, and a step changes the values of the context of no Group other
\* than the one it is made on.
C5_NoSharedDefaults ==
    [][/\ LibraryDefaults' = LibraryDefaults
       /\ \A h \in Groups :
             (groups[h].alive /\ last'.g # h) =>
                 ContextValues(h)' = ContextValues(h)]_vars

\* The number of the equations of the class of equations[i] before it.
Earlier(equations, i) ==
    Cardinality({k \in 1..(i - 1) : equations[k].cls = equations[i].cls})

EndsWith(s, suffix) ==
    Len(s) >= Len(suffix) /\ SubSeq(s, Len(s) - Len(suffix) + 1, Len(s)) = suffix

\* C6. Naming uniqueness within a class: after get_equation_wrappers the names
\* of the instances of one class differ from one another, and the name of an
\* instance ends with the number of the instances of its class before it.
C6_NamingUniqueness ==
    last.op = "get_equation_wrappers" =>
        LET equations == groups[last.g].equations
        IN  /\ \A i, j \in DOMAIN equations :
                  (i < j /\ equations[i].cls = equations[j].cls) =>
                      equations[i].var_name # equations[j].var_name
            /\ \A i \in DOMAIN equations :
                  EndsWith(equations[i].var_name,
                           FormatInt(Earlier(equations, i)))

\* C7. Unique name per instance: after get_equation_wrappers the names of two
\* equations of a group differ, be they of one class or of two, and whatever
\* name they were constructed with.
C7_UniqueNamePerInstance ==
    last.op = "get_equation_wrappers" =>
        LET equations == groups[last.g].equations
        IN  \A i, j \in DOMAIN equations :
                i # j => equations[i].var_name # equations[j].var_name

\* The getters of phase code and the method each is about.
CodeGetters ==
    [get_initialize_code |-> "initialize", get_loop_code |-> "loop",
     get_post_loop_code |-> "post_loop"]

\* The equations of a group that have the method kind.
WithMethod(equations, kind) ==
    {i \in DOMAIN equations : HasMethod(equations[i], kind)}

\* C8. Assigned name is set exactly once: var_name is written once, so
\* get_equation_wrappers finds every var_name unset, and a getter of phase
\* code finds the var_name of every equation it emits a stub for set.
C8_SetExactlyOnce ==
    [][/\ last'.op = "get_equation_wrappers" =>
             \A i \in DOMAIN groups[last'.g].equations :
                 groups[last'.g].equations[i].var_name = ""
       /\ last'.op \in DOMAIN CodeGetters =>
             \A i \in WithMethod(groups'[last'.g].equations, CodeGetters[last'.op]) :
                 groups'[last'.g].equations[i].var_name # ""]_vars

\* C9. Optional phase behaviours: Group(...) and update() return for every
\* list of equations, and has_loop() does not report loop code for a group
\* none of whose equations defines loop.
C9_OptionalPhases ==
    /\ last.op \in {"Group", "update"} => last.exc = NoExc
    /\ (last.op = "has_loop" /\ WithMethod(groups[last.g].equations, "loop") = {})
          => last.ret # PyTrue

\* The names of the call that depend on themselves through other names.
RECURSIVE Reach(_, _)
Reach(from, seen) ==
    LET next == (UNION {srt.depends[x] : x \in from}) \ seen
    IN  IF next = {} THEN seen ELSE Reach(next, seen \cup next)

OnCycle == {x \in DOMAIN srt.depends : x \in Reach({x}, {})}

\* C10. Sorter termination: when no name depends on itself through other
\* names, the call returns, every name with a weight; a name that does is
\* never given a weight, and with such a name the loop is never left.
C10_SorterTermination ==
    /\ (OnCycle = {}) ~>
          (srt.pc = "return" /\ \A x \in DOMAIN srt.weights : srt.weights[x] # None)
    /\ [](\A x \in OnCycle : srt.weights[x] = None)
    /\ [](OnCycle # {} => srt.pc \in {"while", "for"})

\* The call returned three names of three different weights.
C10_Witness ==
    /\ srt.pc = "return"
    /\ Len(srt.result) = 3
    /\ Cardinality(DOMAIN srt.levels) = 3

\* The source and destination array names among the parameters of the
\* equations and the symbols of the blocks named.
ExpectedArrays(equations, blocks) ==
    LET params == UNION {UNION {Range(MethodArgs(equations[i], k)) :
                                   k \in {m \in Kinds : HasMethod(equations[i], m)}} :
                            i \in DOMAIN equations}
        syms == params \cup UNION {pre_comp[p].symbols : p \in blocks}
    IN  <<{x \in syms : StartsWith(x, "s_")} \ {"s_idx"},
          {x \in syms : StartsWith(x, "d_")} \ {"d_idx"}>>

\* The resolved names of the group are those of its equations as they are
\* now: update() was called after the last change of the list.
UpdatedGroup(grp) ==
    /\ \A i \in DOMAIN grp.equations : HasMethod(grp.equations[i], "loop")
    /\ Range(grp.precomputed) = FoundPrecomputed(grp.equations)

Updated(g) == UpdatedGroup(groups[g])

\* What get_array_names returns on a new Group of the equations.
FreshArrays(equations) ==
    ExpectedArrays(equations, FoundPrecomputed(equations))

\* C11. Array-name introspection follows the current equation list:
\* get_array_names() with its default arguments, called when Group(...) or
\* update() has returned, returns the array names of the equations and the
\* resolved blocks as they are now, as on a new Group of these equations.
C11_ArrayNamesCurrent ==
    [][(Resolving /\ last'.op = ArrayNamesOp(FALSE) /\ last'.g = last.g) =>
          last'.ret = FreshArrays(groups'[last'.g].equations)]_vars

\* C11, amended: get_array_names(recompute=True), and get_array_names() on a
\* group that has not computed its names, return the array names of the
\* equations and the resolved blocks as they are now (on an updated group
\* those of a new Group of these equations) and keep them; get_array_names()
\* on a group that has computed its names returns the names it keeps and
\* changes nothing.
C11_ArrayNamesCached ==
    [][last'.op \in {ArrayNamesOp(FALSE), ArrayNamesOp(TRUE)} =>
          LET g == last'.g
              equations == groups'[g].equations
          IN  IF last'.op = ArrayNamesOp(TRUE) \/ groups[g].src_arrays = NoneSet
              THEN /\ last'.ret = ExpectedArrays(equations,
                                                 Range(groups'[g].precomputed))
                   /\ UpdatedGroup(groups'[g]) => last'.ret = FreshArrays(equations)
                   /\ groups'[g].src_arrays = <<last'.ret[1]>>
                   /\ groups'[g].dest_arrays = <<last'.ret[2]>>
              ELSE /\ last'.ret = <<groups[g].src_arrays[1],
                                    groups[g].dest_arrays[1]>>
                   /\ groups' = groups]_vars

\* get_array_names() on an updated group of two equations returns the names
\* computed when the group held the first alone.
C11_Witness ==
    /\ last.op = ArrayNamesOp(FALSE)
    /\ Updated(last.g)
    /\ Len(groups[last.g].equations) = 2
    /\ last.ret = <<{"s_rho"}, {"d_rho"}>>
    /\ "s_m" \in FreshArrays(groups[last.g].equations)[1]
    /\ "s_h" \in FreshArrays(groups[last.g].equations)[1]

====
